---- MODULE Spec2Model ----
(***************************************************************************)
(* Order lifecycle, daily numbering and stock adjustment of the            *)
(* merthanaya-pos backend (backend/app/routers/orders.py, inventory.py).   *)
(* Every handler is a sequence of round trips to the external store; one   *)
(* round trip is one atomic step, so concurrent requests interleave        *)
(* between round trips exactly as the handlers allow.                      *)
(***************************************************************************)
EXTENDS Integers, Sequences, FiniteSets, TLC

VARIABLES now, products, orders, order_items, daily_counters, stock_history,
          next_order_id, pc, loc, resp, dirty,
          users, auth_users, stores, next_product_id, paging

vars == <<now, products, orders, order_items, daily_counters, stock_history,
          next_order_id, pc, loc, resp, dirty,
          users, auth_users, stores, next_product_id, paging>>

\* The users table, the accounts of the auth provider and the stores table.
idvars == <<users, auth_users, stores>>

dbvars == <<products, orders, order_items, daily_counters, stock_history,
            next_order_id, idvars, next_product_id>>

(***************************************************************************)
(* Bounds of the model.                                                    *)
(***************************************************************************)
MaxOrders == 2      \* order rows ever inserted (legacy row included)
MaxNow == 4         \* last instant of the logical clock
MaxNumber == 4      \* largest last_number a counter row may be given
MaxStock == 3       \* largest stock an adjustment may be asked to reach
MaxHistory == 2     \* stock_history rows ever inserted
MaxProducts == 4    \* largest product id ever inserted
MaxStores == 2      \* store rows ever inserted
MaxTotal == 25      \* largest number of orders a count query reports
MaxPageSize == 10   \* largest page_size a list request asks for

Procs == {1, 2}             \* request handlers that may run concurrently
SeqProcs == {1}             \* the handler used when requests do not overlap
AdminProcs == {2}           \* the handler of an admin's requests beside it
ProductIds == {1, 2}        \* product ids requests may name
Quantities == {1, 2}        \* item quantities (gt=0)
Deltas == {-2, -1, 1}       \* stock adjustments
OrderIds == 1..MaxOrders

\* Two instants per calendar day; instants 0 and 1 are day 0, before the
\* first request, when legacy rows were written.  The model starts at the
\* last instant of day 1.
DateOf(t) == t \div 2

NULL == <<>>

(***************************************************************************)
(* Pure helpers of orders.py.                                              *)
(***************************************************************************)

\* f"{n:03d}": the decimal digits of n, zero-padded on the left to width 3.
RECURSIVE Digits(_)
Digits(n) == IF n < 10 THEN <<n>> ELSE Digits(n \div 10) \o <<n % 10>>

Pad3(n) ==
    LET d == Digits(n)
    IN  IF Len(d) >= 3 THEN d
        ELSE [i \in 1..(3 - Len(d)) |-> 0] \o d

\* format_daily_id: "#" followed by the padded number.
format_daily_id(number) == <<"#">> \o Pad3(number)

\* The INV-YYYYMMDD-XXX string as its three parts.
InvoiceString(day, daily_id) == <<"INV", day>> \o Pad3(daily_id)

\* generate_invoice_id reads date.today() itself: `today` is the date of the
\* instant at which it is called.
generate_invoice_id(daily_id, today) == InvoiceString(today, daily_id)

\* float(Decimal) followed by the JSON encoding of the float: a decimal of at
\* most FloatDigits significant digits comes back unchanged, a longer one is
\* rounded to the nearest value a double can hold (modelled as dropping the
\* digits beyond FloatDigits).
FloatDigits == 15

RECURSIVE DropDigits(_, _)
DropDigits(n, k) == IF k <= 0 THEN n ELSE 10 * DropDigits(n \div 10, k - 1)

ToFloat(x) ==
    LET a == IF x < 0 THEN -x ELSE x
        r == DropDigits(a, Len(Digits(a)) - FloatDigits)
    IN  IF x < 0 THEN -r ELSE r

\* Decimal(str(v)) of a number read from the store: the JSON number arrives
\* as a float, and str() prints the shortest decimal that reads back as it.
ToDecimal(v) == ToFloat(v)

RECURSIVE SumSubtotals(_)
SumSubtotals(items) ==
    IF items = <<>> THEN 0
    ELSE items[1].subtotal + SumSubtotals(Tail(items))

(***************************************************************************)
(* Requests.                                                               *)
(***************************************************************************)
\* Item lists of one or two items (min_length=1).
ItemLists ==
    LET ItemChoices == [product_id : ProductIds, quantity : Quantities]
    IN  {<<a>> : a \in ItemChoices} \cup {<<a, b>> : a, b \in ItemChoices}

(***************************************************************************)
(* Initial store.                                                          *)
(***************************************************************************)
\* Python's None in a column or a field that otherwise holds a string.
None == "None"

\* Product 1 was created by an admin (no owner, a barcode), product 2 by the
\* staff user u2 (no barcode).
ProductA == [name |-> "A", category |-> "Sembako", price |-> 1000, stock |-> 1,
             barcode |-> "8001", is_active |-> TRUE, owner_id |-> None]
ProductB == [name |-> "B", category |-> "Canang", price |-> 500, stock |-> 1,
             barcode |-> None, is_active |-> TRUE, owner_id |-> "u2"]

\* Catalogs the store may hold: product 2 active, soft-deleted or absent.
FullCatalog == (1 :> ProductA) @@ (2 :> ProductB)

InitCatalogs ==
    { FullCatalog,
      (1 :> ProductA) @@ (2 :> [ProductB EXCEPT !.is_active = FALSE]),
      (1 :> ProductA) }

\* An order written before invoicing existed: no stored invoice_id.
LegacyOrder ==
    [daily_id |-> 1, invoice_id |-> NULL, runner_id |-> 0,
     total_amount |-> 1000, status |-> "PENDING",
     created_at |-> 0, updated_at |-> 0]

LegacyItems ==
    << [product_id |-> 1, product_name |-> "A", quantity |-> 1,
        price_at_purchase |-> 1000, subtotal |-> 1000] >>

IdleLoc == [op |-> "none"]
\* resp is the answer sent by the step just taken, NoResp when it sent none.
NoResp == [op |-> "none", code |-> 0, detail |-> "none", proc |-> 0]

\* The accounts: u1 is an admin, u2 and u3 are staff.
UserIds == {"u1", "u2", "u3"}

Profile(role, is_active) == [role |-> role, is_active |-> is_active]

InitUsers ==
    ("u1" :> Profile("admin", TRUE)) @@ ("u2" :> Profile("staff", TRUE))
        @@ ("u3" :> Profile("staff", TRUE))

NoPaging == [op |-> "none", total |-> 0, page_size |-> 1, total_pages |-> 0]

\* The users, the auth accounts and the stores with which every
\* specification starts.
InitIdentity(profiles) ==
    /\ users \in profiles
    /\ auth_users = UserIds
    /\ stores = << >>

\* The tables, the clock and the handlers before the first request.
InitTables(catalogs, legacies) ==
    /\ InitIdentity({InitUsers})
    /\ next_product_id = 3
    /\ now = 3
    /\ products \in catalogs
    /\ \E legacy \in legacies :
         IF legacy
         THEN /\ orders = (1 :> LegacyOrder)
              /\ order_items = (1 :> LegacyItems)
              /\ daily_counters = << [date |-> 0, last_number |-> 1] >>
              /\ next_order_id = 2
         ELSE /\ orders = << >>
              /\ order_items = << >>
              /\ daily_counters = << >>
              /\ next_order_id = 1
    /\ stock_history = << >>
    /\ pc = [p \in Procs |-> "idle"]
    /\ loc = [p \in Procs |-> IdleLoc]
    /\ resp = NoResp
    /\ dirty = {}

InitStore(catalogs, legacies) ==
    /\ InitTables(catalogs, legacies)
    /\ paging = NoPaging

Init == InitStore(InitCatalogs, BOOLEAN)

(***************************************************************************)
(* Store queries used by the handlers.                                     *)
(***************************************************************************)
Range(f) == {f[i] : i \in DOMAIN f}

\* select("*").in_("id", product_ids): the rows whose id is among the ids.
SelectProducts(ids) == [i \in (DOMAIN products) \cap ids |-> products[i]]

\* select("*").eq("date", today) on daily_counters, in table order.
SelectCounters(today) ==
    SelectSeq(daily_counters, LAMBDA r : r.date = today)

\* update({"last_number": n}).eq("date", today): every row of that date.
UpdateCounters(today, n) ==
    [i \in DOMAIN daily_counters |->
        IF daily_counters[i].date = today
        THEN [daily_counters[i] EXCEPT !.last_number = n]
        ELSE daily_counters[i]]

MaxLastNumber ==
    IF daily_counters = << >> THEN 0
    ELSE CHOOSE m \in {r.last_number : r \in Range(daily_counters)} :
            \A r \in Range(daily_counters) : r.last_number <= m

\* Requests that have not yet written the counter / inserted their order.
Numbering == {q \in Procs : pc[q] \in {"co_counter_select", "co_counter_write"}}
Creating == {q \in Procs : pc[q] \in {"co_counter_select", "co_counter_write",
                                      "co_insert_order"}}

Snapshot == [orders |-> orders, order_items |-> order_items,
             daily_counters |-> daily_counters]

Respond(p, r) ==
    /\ resp' = r @@ [proc |-> p]
    /\ pc' = [pc EXCEPT ![p] = "idle"]
    /\ loc' = [loc EXCEPT ![p] = IdleLoc]

Goto(p, label, l) ==
    /\ pc' = [pc EXCEPT ![p] = label]
    /\ loc' = [loc EXCEPT ![p] = l]
    /\ resp' = NoResp

Error(op, code, detail) == [op |-> op, code |-> code, detail |-> detail]

(***************************************************************************)
(* create_order (orders.py 49-154).                                        *)
(***************************************************************************)

\* The validation loop: the first item that names a missing or an inactive
\* product decides the error.
Verdict(detail, product_id) == [detail |-> detail, product_id |-> product_id]

\* ValidateItems without the is_active test of line 78.
RECURSIVE ValidateItemsExistOnly(_, _)
ValidateItemsExistOnly(items, products_map) ==
    IF items = <<>> THEN Verdict("ok", 0)
    ELSE LET id == items[1].product_id
         IN  IF id \notin DOMAIN products_map
             THEN Verdict("product_not_found", id)
             ELSE ValidateItemsExistOnly(Tail(items), products_map)

RECURSIVE ValidateItems(_, _)
ValidateItems(items, products_map) ==
    IF items = <<>> THEN Verdict("ok", 0)
    ELSE LET id == items[1].product_id
         IN  IF id \notin DOMAIN products_map
             THEN Verdict("product_not_found", id)
             ELSE IF ~products_map[id].is_active
             THEN Verdict("product_not_available", id)
             ELSE ValidateItems(Tail(items), products_map)

\* One order_items row per requested item: name and price are the snapshot
\* in products_map, subtotal = price * quantity in Decimal, sent as floats.
OrderItemData(item, products_map) ==
    LET product == products_map[item.product_id]
        price == ToDecimal(product.price)
        subtotal == price * item.quantity
    IN  [product_id |-> item.product_id,
         product_name |-> product.name,
         quantity |-> ToFloat(item.quantity),
         price_at_purchase |-> ToFloat(price),
         subtotal |-> ToFloat(subtotal)]

OrderItemsData(items, products_map) ==
    [i \in DOMAIN items |-> OrderItemData(items[i], products_map)]

\* TotalAmount that adds the prices and forgets the quantities.
RECURSIVE TotalOfPrices(_, _)
TotalOfPrices(items, products_map) ==
    IF items = <<>> THEN 0
    ELSE ToDecimal(products_map[items[1].product_id].price)
         + TotalOfPrices(Tail(items), products_map)

\* Lines 91-97: the running total of price * quantity.
RECURSIVE TotalAmount(_, _)
TotalAmount(items, products_map) ==
    IF items = <<>> THEN 0
    ELSE ToDecimal(products_map[items[1].product_id].price) * items[1].quantity
         + TotalAmount(Tail(items), products_map)

\* Lines 60-82: batch lookup and validation.  `keep` records the store as it
\* was when the call began (a history value read by no handler).  dirty is
\* history as well: the days on which some call that took a number failed
\* or did not insert its order on the day it read the counter.
CreateOrderFetch(p, items, runner_id, keep) ==
    /\ pc[p] = "idle"
    /\ (next_order_id - 1) + Cardinality(Creating) < MaxOrders
    /\ MaxLastNumber + Cardinality(Numbering) < MaxNumber
    /\ LET product_ids == {items[i].product_id : i \in DOMAIN items}
           products_map == SelectProducts(product_ids)
           verdict == ValidateItems(items, products_map)
       IN  IF DOMAIN products_map = {}
           THEN Respond(p, [op |-> "create", code |-> 400,
                            detail |-> "no_valid_products", product_id |-> 0])
           ELSE IF verdict.detail # "ok"
           THEN Respond(p, [op |-> "create", code |-> 400,
                            detail |-> verdict.detail,
                            product_id |-> verdict.product_id])
           ELSE Goto(p, "co_counter_select",
                     [op |-> "create", items |-> items, runner_id |-> runner_id,
                      products_map |-> products_map,
                      pre |-> IF keep THEN Snapshot ELSE NULL])
    /\ UNCHANGED <<now, dbvars, dirty, paging>>

\* get_or_create_daily_counter, line 22-25: today's date and today's rows.
CounterSelect(p) ==
    /\ pc[p] = "co_counter_select"
    /\ LET today == DateOf(now)
       IN  Goto(p, "co_counter_write",
                loc[p] @@ [today |-> today, counter_data |-> SelectCounters(today)])
    /\ UNCHANGED <<now, dbvars, dirty, paging>>

\* NewNumber without the increment of line 29.
NewNumberStale(counter_data) ==
    IF counter_data # << >> THEN counter_data[1].last_number ELSE 1

\* The number get_or_create_daily_counter returns (lines 27-35).
NewNumber(counter_data) ==
    IF counter_data # << >> THEN counter_data[1].last_number + 1 ELSE 1

\* Lines 27-35 and 86-114: write the counter, then derive the invoice id (at
\* the date of this instant), the item rows and the total.  An insert that
\* meets a row of the same date either adds a second row or is rejected by
\* the store (the table's constraints are not part of this repository).
CounterWrite(p, outcome) ==
    /\ pc[p] = "co_counter_write"
    /\ LET l == loc[p]
           daily_id == NewNumber(l.counter_data)
           next == l @@
              [daily_id |-> daily_id,
               invoice_id |-> generate_invoice_id(daily_id, DateOf(now)),
               order_items_data |-> OrderItemsData(l.items, l.products_map),
               total_amount |-> TotalAmount(l.items, l.products_map)]
       IN  IF l.counter_data # << >>
           THEN /\ outcome = "ok"
                /\ daily_counters' = UpdateCounters(l.today, daily_id)
                /\ Goto(p, "co_insert_order", next)
                /\ dirty' = dirty
           ELSE IF outcome = "ok"
           THEN /\ daily_counters' =
                     Append(daily_counters, [date |-> l.today, last_number |-> 1])
                /\ Goto(p, "co_insert_order", next)
                /\ dirty' = dirty
           ELSE /\ SelectCounters(l.today) # << >>
                /\ daily_counters' = daily_counters
                /\ Respond(p, Error("create", 500, "exception"))
                /\ dirty' = dirty \cup {l.today}
    /\ UNCHANGED <<now, products, orders, order_items, stock_history, next_order_id,
                   idvars, next_product_id, paging>>

\* Lines 107-122: insert the order row; the store stamps id and timestamps.
InsertOrder(p, outcome) ==
    /\ pc[p] = "co_insert_order"
    /\ LET l == loc[p]
           order_data == [daily_id |-> l.daily_id,
                          invoice_id |-> l.invoice_id,
                          runner_id |-> l.runner_id,
                          total_amount |-> ToFloat(l.total_amount),
                          status |-> "PENDING"]
           order_record == order_data @@ [created_at |-> now, updated_at |-> now]
       IN  IF outcome = "ok"
           THEN /\ orders' = orders @@ (next_order_id :> order_record)
                /\ next_order_id' = next_order_id + 1
                /\ Goto(p, "co_insert_items",
                        l @@ [order_id |-> next_order_id,
                              order_record |-> order_record])
                /\ dirty' = IF DateOf(now) = l.today THEN dirty
                            ELSE dirty \cup {l.today, DateOf(now)}
           ELSE /\ UNCHANGED <<orders, next_order_id>>
                /\ Respond(p, Error("create", 500, "order_insert_failed"))
                /\ dirty' = dirty \cup {l.today}
    /\ UNCHANGED <<now, products, order_items, daily_counters, stock_history,
                   idvars, next_product_id, paging>>

\* Lines 124-149: insert the item rows in one statement and answer.  The
\* insert returns its rows ("ok"), returns none ("empty", lines 130-133) or
\* raises ("raise", line 153).
InsertItems(p, outcome) ==
    /\ pc[p] = "co_insert_items"
    /\ LET l == loc[p]
       IN  CASE outcome = "ok" ->
                  /\ order_items' = order_items @@ (l.order_id :> l.order_items_data)
                  /\ Respond(p, [op |-> "create", code |-> 201, detail |-> "ok",
                                 id |-> l.order_id,
                                 daily_id |-> l.daily_id,
                                 short_id |-> format_daily_id(l.daily_id),
                                 invoice_id |-> l.invoice_id,
                                 runner_id |-> l.runner_id,
                                 total_amount |-> ToDecimal(l.order_record.total_amount),
                                 status |-> l.order_record.status,
                                 items |-> l.order_items_data,
                                 created_at |-> l.order_record.created_at,
                                 updated_at |-> l.order_record.updated_at])
                  /\ dirty' = dirty
             [] outcome = "empty" ->
                  /\ order_items' = order_items
                  /\ Goto(p, "co_rollback", l)
                  /\ dirty' = dirty \cup {l.today}
             [] outcome = "raise" ->
                  /\ order_items' = order_items
                  /\ Respond(p, Error("create", 500, "exception"))
                  /\ dirty' = dirty \cup {l.today}
    /\ UNCHANGED <<now, products, orders, daily_counters, stock_history, next_order_id,
                   idvars, next_product_id, paging>>

\* Lines 131-133: delete the order row again; a delete that raises leaves it.
RollbackOrder(p, outcome) ==
    /\ pc[p] = "co_rollback"
    /\ LET l == loc[p]
       IN  IF outcome = "ok"
           THEN /\ orders' = [o \in (DOMAIN orders) \ {l.order_id} |-> orders[o]]
                /\ Respond(p, Error("create", 500, "order_items_failed"))
           ELSE /\ orders' = orders
                /\ Respond(p, Error("create", 500, "exception"))
    /\ UNCHANGED <<now, products, order_items, daily_counters, stock_history,
                   next_order_id, dirty,
                   idvars, next_product_id, paging>>

(***************************************************************************)
(* Reading an order: the stored invoice id, or one generated on the spot   *)
(* (orders.py 184, 237, 277, 323, 437).                                    *)
(***************************************************************************)
InvoiceOf(order_data, today) ==
    IF order_data.invoice_id # NULL THEN order_data.invoice_id
    ELSE generate_invoice_id(order_data.daily_id, today)

\* get_order, lines 262-267.
GetOrderSelect(p, order_id) ==
    /\ pc[p] = "idle"
    /\ IF order_id \notin DOMAIN orders
       THEN Respond(p, [op |-> "get", code |-> 404, detail |-> "order_not_found",
                        id |-> order_id])
       ELSE Goto(p, "get_items",
                 [op |-> "get", order_id |-> order_id, order_data |-> orders[order_id]])
    /\ UNCHANGED <<now, dbvars, dirty, paging>>

\* SelectItems that takes name and price from the product as it is now.
SelectItemsLive(order_id) ==
    IF order_id \in DOMAIN order_items
    THEN [k \in DOMAIN order_items[order_id] |->
            LET item == order_items[order_id][k]
            IN  IF item.product_id \in DOMAIN products
                THEN [item EXCEPT
                        !.product_name = products[item.product_id].name,
                        !.price_at_purchase = products[item.product_id].price,
                        !.subtotal = products[item.product_id].price * item.quantity]
                ELSE item]
    ELSE << >>

\* Lines 269-270: select("*").eq("order_id", id) on order_items.
SelectItems(order_id) ==
    IF order_id \in DOMAIN order_items THEN order_items[order_id] ELSE << >>

\* get_order, lines 269-284.
GetOrderItems(p) ==
    /\ pc[p] = "get_items"
    /\ LET l == loc[p]
           items == SelectItems(l.order_id)
       IN  Respond(p, [op |-> "get", code |-> 200, detail |-> "ok",
                       id |-> l.order_id,
                       daily_id |-> l.order_data.daily_id,
                       short_id |-> format_daily_id(l.order_data.daily_id),
                       invoice_id |-> InvoiceOf(l.order_data, DateOf(now)),
                       runner_id |-> l.order_data.runner_id,
                       total_amount |-> ToDecimal(l.order_data.total_amount),
                       status |-> l.order_data.status,
                       items |-> items,
                       created_at |-> l.order_data.created_at,
                       updated_at |-> l.order_data.updated_at])
    /\ UNCHANGED <<now, dbvars, dirty, paging>>

(***************************************************************************)
(* mark_order_paid (orders.py 292-331) and cancel_order (334-364).         *)
(***************************************************************************)

\* UpdateStatus that matches the rows by the daily number of the order.
UpdateStatusByDailyId(order_id, status, t) ==
    IF order_id \in DOMAIN orders
    THEN [o \in DOMAIN orders |->
            IF orders[o].daily_id = orders[order_id].daily_id
            THEN [orders[o] EXCEPT !.status = status, !.updated_at = t]
            ELSE orders[o]]
    ELSE orders

\* UpdateStatus that leaves updated_at as it was.
UpdateStatusKeepTime(order_id, status, t) ==
    IF order_id \in DOMAIN orders
    THEN [orders EXCEPT ![order_id] = [@ EXCEPT !.status = status]]
    ELSE orders

\* update({"status": s, "updated_at": t}).eq("id", order_id): the table after
\* the update; an id with no row updates nothing.
UpdateStatus(order_id, status, t) ==
    IF order_id \in DOMAIN orders
    THEN [orders EXCEPT ![order_id] = [@ EXCEPT !.status = status, !.updated_at = t]]
    ELSE orders

\* The status an order must have to be paid or cancelled (lines 304, 346).
\* Transitionable with PAID let through as well.
TransitionableOrPaid(status) == status \in {"PENDING", "PAID"}

Transitionable(status) == status = "PENDING"

\* Lines 298-308: read the order, refuse a missing or a non-PENDING one.
MarkPaidSelect(p, order_id) ==
    /\ pc[p] = "idle"
    /\ IF order_id \notin DOMAIN orders
       THEN Respond(p, [op |-> "pay", code |-> 404, detail |-> "order_not_found",
                        id |-> order_id])
       ELSE IF ~Transitionable(orders[order_id].status)
       THEN Respond(p, [op |-> "pay", code |-> 400, detail |-> "conflict",
                        id |-> order_id, current |-> orders[order_id].status])
       ELSE Goto(p, "pay_update",
                 [op |-> "pay", order_id |-> order_id, order_data |-> orders[order_id]])
    /\ UNCHANGED <<now, dbvars, dirty, paging>>

\* Lines 310-326: write PAID and the current time, answer from the row read.
MarkPaidUpdate(p) ==
    /\ pc[p] = "pay_update"
    /\ LET l == loc[p]
       IN  /\ orders' = UpdateStatus(l.order_id, "PAID", now)
           /\ IF l.order_id \notin DOMAIN orders
              THEN Respond(p, [op |-> "pay", code |-> 500, detail |-> "update_failed",
                               id |-> l.order_id])
              ELSE Respond(p, [op |-> "pay", code |-> 200, detail |-> "ok",
                               id |-> l.order_id,
                               short_id |-> format_daily_id(l.order_data.daily_id),
                               invoice_id |-> InvoiceOf(l.order_data, DateOf(now)),
                               status |-> "PAID",
                               paid_at |-> now])
    /\ UNCHANGED <<now, products, order_items, daily_counters, stock_history,
                   next_order_id, dirty,
                   idvars, next_product_id, paging>>

\* Lines 340-350.
CancelSelect(p, order_id) ==
    /\ pc[p] = "idle"
    /\ IF order_id \notin DOMAIN orders
       THEN Respond(p, [op |-> "cancel", code |-> 404, detail |-> "order_not_found",
                        id |-> order_id])
       ELSE IF ~Transitionable(orders[order_id].status)
       THEN Respond(p, [op |-> "cancel", code |-> 400, detail |-> "conflict",
                        id |-> order_id, current |-> orders[order_id].status])
       ELSE Goto(p, "cancel_update",
                 [op |-> "cancel", order_id |-> order_id, order_data |-> orders[order_id]])
    /\ UNCHANGED <<now, dbvars, dirty, paging>>

\* Lines 352-359: the result of the update is not looked at.
CancelUpdate(p) ==
    /\ pc[p] = "cancel_update"
    /\ LET l == loc[p]
       IN  /\ orders' = UpdateStatus(l.order_id, "CANCELLED", now)
           /\ Respond(p, [op |-> "cancel", code |-> 200, detail |-> "ok",
                          id |-> l.order_id,
                          short_id |-> format_daily_id(l.order_data.daily_id)])
    /\ UNCHANGED <<now, products, order_items, daily_counters, stock_history,
                   next_order_id, dirty,
                   idvars, next_product_id, paging>>

(***************************************************************************)
(* adjust_stock (inventory.py 54-106).                                     *)
(***************************************************************************)
Adjusting == {q \in Procs : pc[q] \in {"adj_update", "adj_history"}}

\* NewStock with the adjustment subtracted.
NewStockSubtracted(current_stock, adjustment) == current_stock - adjustment

\* Line 72.
NewStock(current_stock, adjustment) == current_stock + adjustment

\* BelowZero that lets -1 through.
BelowMinusOne(new_stock) == new_stock < -1

\* Line 74.
BelowZero(new_stock) == new_stock < 0

\* Lines 62-78: read the stock, refuse a missing product or a negative result.
AdjustSelect(p, product_id, adjustment) ==
    /\ pc[p] = "idle"
    /\ Len(stock_history) + Cardinality(Adjusting) < MaxHistory
    /\ IF product_id \notin DOMAIN products
       THEN Respond(p, [op |-> "adjust", code |-> 404,
                        detail |-> "product_not_found",
                        product_id |-> product_id, adjustment |-> adjustment])
       ELSE LET product == products[product_id]
                current_stock == ToDecimal(product.stock)
                new_stock == NewStock(current_stock, adjustment)
            IN  /\ new_stock <= MaxStock
                /\ IF BelowZero(new_stock)
                   THEN Respond(p, [op |-> "adjust", code |-> 400,
                                    detail |-> "below_zero",
                                    product_id |-> product_id,
                                    previous_stock |-> current_stock,
                                    adjustment |-> adjustment])
                   ELSE Goto(p, "adj_update",
                             [op |-> "adjust", product_id |-> product_id,
                              adjustment |-> adjustment,
                              product_name |-> product.name,
                              current_stock |-> current_stock,
                              new_stock |-> new_stock])
    /\ UNCHANGED <<now, dbvars, dirty, paging>>

\* Lines 80-83: write the new stock; a product removed meanwhile updates nothing.
AdjustUpdate(p) ==
    /\ pc[p] = "adj_update"
    /\ LET l == loc[p]
       IN  /\ products' =
                IF l.product_id \in DOMAIN products
                THEN [products EXCEPT ![l.product_id].stock = ToFloat(l.new_stock)]
                ELSE products
           /\ Goto(p, "adj_history", l)
    /\ UNCHANGED <<now, orders, order_items, daily_counters, stock_history,
                   next_order_id, dirty,
                   idvars, next_product_id, paging>>

\* AdjustAnswer that reports a failed history insert.
AdjustAnswerOrFail(l, outcome) ==
    IF outcome = "ok"
    THEN [op |-> "adjust", code |-> 200, detail |-> "ok",
          product_id |-> l.product_id,
          product_name |-> l.product_name,
          previous_stock |-> l.current_stock,
          new_stock |-> l.new_stock,
          adjustment |-> l.adjustment]
    ELSE [op |-> "adjust", code |-> 500, detail |-> "exception",
          product_id |-> l.product_id, adjustment |-> l.adjustment]

\* Lines 95-106: the exception of the history insert is passed over, and the
\* answer is built from what the call read and computed before it.
AdjustAnswer(l, outcome) ==
    [op |-> "adjust", code |-> 200, detail |-> "ok",
     product_id |-> l.product_id,
     product_name |-> l.product_name,
     previous_stock |-> l.current_stock,
     new_stock |-> l.new_stock,
     adjustment |-> l.adjustment]

\* Lines 85-106: append the history row, ignoring a failure, and answer.
AdjustHistory(p, outcome) ==
    /\ pc[p] = "adj_history"
    /\ LET l == loc[p]
       IN  /\ stock_history' =
                IF outcome = "ok"
                THEN Append(stock_history,
                            [product_id |-> l.product_id,
                             previous_stock |-> ToFloat(l.current_stock),
                             new_stock |-> ToFloat(l.new_stock),
                             adjustment |-> ToFloat(l.adjustment),
                             created_at |-> now])
                ELSE stock_history
           /\ Respond(p, AdjustAnswer(l, outcome))
    /\ UNCHANGED <<now, products, orders, order_items, daily_counters,
                   next_order_id, dirty,
                   idvars, next_product_id, paging>>

(***************************************************************************)
(* get_current_user, require_auth and require_admin (auth.py 24-90).  A    *)
(* request is a record: its op, its token (the account it was issued to,   *)
(* None without an Authorization header) and the arguments of the op.      *)
(***************************************************************************)
Tokens == UserIds \cup {None}

\* current_user when get_current_user returned None.
NoUser == [id |-> None, role |-> None, is_active |-> FALSE]

\* Lines 58-66: an account without a profile row is an active admin.
FallbackUser(id) == [id |-> id, role |-> "admin", is_active |-> TRUE]

\* Lines 45-66: the context built from the profile row, else the fallback.
CurrentUser(id) ==
    IF id \in DOMAIN users
    THEN [id |-> id, role |-> users[id].role, is_active |-> users[id].is_active]
    ELSE FallbackUser(id)

\* The dependency each handler declares: Depends(get_current_user),
\* Depends(require_auth) or Depends(require_admin).
Guard(op) ==
    CASE op = "list_products" -> "optional"
      [] op \in {"create_product", "update_product", "delete_product",
                 "get_my_store", "update_my_store"} -> "auth"
      [] op \in {"create_user", "update_user", "deactivate_user",
                 "reactivate_user"} -> "admin"
      [] OTHER -> "none"

\* if product.barcode: None and the empty string are both false.
Truthy(s) == s \notin {None, ""}

\* The first round trip of each handler once its dependency is resolved.
Entry(request) ==
    CASE request.op = "list_products" -> "lp_count"
      [] request.op = "create_product" ->
            IF Truthy(request.product.barcode) THEN "cp_check" ELSE "cp_insert"
      [] request.op = "update_product" -> "up_select"
      [] request.op = "delete_product" -> "dp_select"
      [] request.op = "get_my_store" -> "gs_select"
      [] request.op = "update_my_store" -> "us_check"
      [] request.op = "create_user" -> "cu_auth"
      [] request.op = "update_user" -> "uu_update"
      [] request.op = "deactivate_user" -> "du_write"
      [] request.op = "reactivate_user" -> "ru_update"

\* Lines 28-40 and 77-78: no header, or a token the auth provider does not
\* resolve, gives no user: 401 under require_auth, current_user None under
\* get_current_user.
ResolveToken(p, request) ==
    /\ pc[p] = "idle"
    /\ IF request.token = None \/ request.token \notin auth_users
       THEN IF Guard(request.op) = "optional"
            THEN Goto(p, Entry(request), request @@ [current_user |-> NoUser])
            ELSE Respond(p, [op |-> request.op, code |-> 401,
                             detail |-> "not_authenticated",
                             token |-> request.token])
       ELSE Goto(p, "auth_profile", request)
    /\ UNCHANGED <<now, dbvars, dirty, paging>>

\* Deactivated that lets every user through.
DeactivatedNever(user) == FALSE

\* Line 79.
Deactivated(user) == ~user.is_active

\* Line 88.
NotAdmin(user) == user.role # "admin"

\* Lines 42-66 and 79-90: read the profile, refuse a deactivated user (and,
\* under require_admin, one that is no admin), else enter the handler.
LookupProfile(p) ==
    /\ pc[p] = "auth_profile"
    /\ LET l == loc[p]
           user == CurrentUser(l.token)
       IN  IF Guard(l.op) # "optional" /\ Deactivated(user)
           THEN Respond(p, [op |-> l.op, code |-> 403, detail |-> "deactivated",
                            token |-> l.token])
           ELSE IF Guard(l.op) = "admin" /\ NotAdmin(user)
           THEN Respond(p, [op |-> l.op, code |-> 403, detail |-> "admin_required",
                            token |-> l.token])
           ELSE Goto(p, Entry(l), l @@ [current_user |-> user])
    /\ UNCHANGED <<now, dbvars, dirty, paging>>

(***************************************************************************)
(* products.py: list_products, create_product, update_product and          *)
(* delete_product.  image_url and unit_type are carried through unread and *)
(* are left out; requests carry no search term.                            *)
(***************************************************************************)

\* InScope that also lets a staff user at the rows without an owner.
InScopeOrShared(row, current_user) ==
    (current_user # NoUser /\ current_user.role = "staff")
        => row.owner_id \in {current_user.id, None}

\* Lines 43-44, 62-63, 182-183, 232-233: a staff caller is held to the rows
\* whose owner_id is the caller's id; any other caller is not filtered.
InScope(row, current_user) ==
    (current_user # NoUser /\ current_user.role = "staff")
        => row.owner_id = current_user.id

\* select(...).eq("barcode", barcode): the ids of the rows holding it.
SelectByBarcode(barcode) == {i \in DOMAIN products : products[i].barcode = barcode}

\* The rows a list request matches (lines 35-44 and 52-63).
Filtered(l) ==
    {i \in DOMAIN products :
        /\ l.active_only => products[i].is_active
        /\ Truthy(l.category) => products[i].category = l.category
        /\ InScope(products[i], l.current_user)}

\* order("name"): the store's collation of the names in use.
NameOrder == <<"A", "A2", "B", "C">>

Collate(name) == CHOOSE k \in DOMAIN NameOrder : NameOrder[k] = name

\* Every arrangement of the ids in S in which key, a value for each id,
\* never decreases; rows with equal keys come in an order the store chooses.
OrderedBy(S, key) ==
    {f \in [1..Cardinality(S) -> S] :
        /\ \A a, b \in DOMAIN f : a # b => f[a] # f[b]
        /\ \A a, b \in DOMAIN f : a < b => key[f[a]] <= key[f[b]]}

\* range(offset, offset + page_size - 1) when page_size > 0 (lines 68-70).
PageOf(rows, page, page_size) ==
    IF page_size > 0
    THEN LET offset == (page - 1) * page_size
             last == IF offset + page_size < Len(rows)
                     THEN offset + page_size ELSE Len(rows)
         IN  SubSeq(rows, offset + 1, last)
    ELSE rows

\* Lines 34-47: the count query.
ListProductsCount(p) ==
    /\ pc[p] = "lp_count"
    /\ Goto(p, "lp_query", loc[p] @@ [total |-> Cardinality(Filtered(loc[p]))])
    /\ UNCHANGED <<now, dbvars, dirty, paging>>

\* Lines 50-75: the main query, ordered by name and cut to the page.  The
\* answer is recorded with the token and the user it is sent to.
ListProductsQuery(p) ==
    /\ pc[p] = "lp_query"
    /\ LET l == loc[p]
           names == [i \in Filtered(l) |-> Collate(products[i].name)]
       IN  \E ids \in OrderedBy(Filtered(l), names) :
              LET result == [k \in DOMAIN ids |-> [id |-> ids[k]] @@ products[ids[k]]]
              IN  Respond(p, [op |-> "list_products", code |-> 200, detail |-> "ok",
                              token |-> l.token,
                              current_user |-> l.current_user,
                              products |-> PageOf(result, l.page, l.page_size),
                              total |-> l.total])
    /\ UNCHANGED <<now, dbvars, dirty, paging>>

\* Lines 140-143: a barcode some row already holds is refused.
CreateProductCheck(p) ==
    /\ pc[p] = "cp_check"
    /\ IF SelectByBarcode(loc[p].product.barcode) # {}
       THEN Respond(p, [op |-> "create_product", code |-> 400,
                        detail |-> "barcode_exists"])
       ELSE Goto(p, "cp_insert", loc[p])
    /\ UNCHANGED <<now, dbvars, dirty, paging>>

\* Lines 146-151: the row to insert; owner_id is set for a staff caller and
\* left to the column's default (null) otherwise.
ProductData(product, current_user) ==
    [product EXCEPT !.price = ToFloat(@)]
        @@ [owner_id |-> IF current_user.role = "staff"
                         THEN current_user.id ELSE None]

Inserting == {q \in Procs : pc[q] \in {"cp_check", "cp_insert"}
                  \/ (pc[q] = "auth_profile" /\ loc[q].op = "create_product")}

\* Lines 153-158.  An insert whose non-null barcode some row already holds
\* either adds the row or is rejected by the store (the table's constraints
\* are not part of this repository).
CreateProductInsert(p, outcome) ==
    /\ pc[p] = "cp_insert"
    /\ LET l == loc[p]
           product_data == ProductData(l.product, l.current_user)
       IN  CASE outcome = "ok" ->
                  /\ products' = products @@ (next_product_id :> product_data)
                  /\ next_product_id' = next_product_id + 1
                  /\ Respond(p, [op |-> "create_product", code |-> 201,
                                 detail |-> "ok", id |-> next_product_id,
                                 product |-> product_data])
             [] outcome = "empty" ->
                  /\ UNCHANGED <<products, next_product_id>>
                  /\ Respond(p, Error("create_product", 500, "create_failed"))
             [] outcome = "raise" ->
                  /\ product_data.barcode # None
                  /\ SelectByBarcode(product_data.barcode) # {}
                  /\ UNCHANGED <<products, next_product_id>>
                  /\ Respond(p, Error("create_product", 500, "exception"))
    /\ UNCHANGED <<now, orders, order_items, daily_counters, stock_history,
                   next_order_id, dirty, idvars, paging>>

\* product.<field> of a ProductUpdate: None unless the request set it.
FieldOf(update, field) == IF field \in update.set THEN update[field] ELSE None

\* Lines 196-198: model_dump(exclude_unset=True) applied to a row.
ApplyUpdate(row, update) ==
    [f \in DOMAIN row |->
        IF f \in update.set
        THEN IF f = "price" THEN ToFloat(update[f]) ELSE update[f]
        ELSE row[f]]

\* Lines 179-187: the row with the id, within the caller's scope.
SelectProduct(product_id, current_user) ==
    {i \in DOMAIN products : i = product_id /\ InScope(products[i], current_user)}

\* Lines 179-201: read the row, refuse a missing one, decide what follows.
UpdateProductSelect(p) ==
    /\ pc[p] = "up_select"
    /\ LET l == loc[p]
           barcode == FieldOf(l.update, "barcode")
       IN  IF SelectProduct(l.product_id, l.current_user) = {}
           THEN Respond(p, [op |-> "update_product", code |-> 404,
                            detail |-> "product_not_found",
                            token |-> l.token, product_id |-> l.product_id])
           ELSE LET existing == products[l.product_id]
                IN  IF Truthy(barcode) /\ barcode # existing.barcode
                    THEN Goto(p, "up_check", l @@ [existing |-> existing])
                    ELSE IF l.update.set = {}
                    THEN Respond(p, [op |-> "update_product", code |-> 200,
                                     detail |-> "ok", id |-> l.product_id,
                                     product |-> existing])
                    ELSE Goto(p, "up_update", l @@ [existing |-> existing])
    /\ UNCHANGED <<now, dbvars, dirty, paging>>

\* Lines 190-193.
UpdateProductCheck(p) ==
    /\ pc[p] = "up_check"
    /\ IF SelectByBarcode(FieldOf(loc[p].update, "barcode")) # {}
       THEN Respond(p, [op |-> "update_product", code |-> 400,
                        detail |-> "barcode_exists"])
       ELSE Goto(p, "up_update", loc[p])
    /\ UNCHANGED <<now, dbvars, dirty, paging>>

\* Lines 203-208: update by id alone.  A row deleted meanwhile gives no data
\* (500); a barcode another row holds is written or rejected by the store.
UpdateProductWrite(p, outcome) ==
    /\ pc[p] = "up_update"
    /\ LET l == loc[p]
           barcode == FieldOf(l.update, "barcode")
       IN  IF l.product_id \notin DOMAIN products
           THEN /\ outcome = "ok"
                /\ products' = products
                /\ Respond(p, Error("update_product", 500, "update_failed"))
           ELSE IF outcome = "ok"
           THEN /\ products' = [products EXCEPT
                                   ![l.product_id] = ApplyUpdate(@, l.update)]
                /\ Respond(p, [op |-> "update_product", code |-> 200,
                               detail |-> "ok", id |-> l.product_id,
                               product |-> ApplyUpdate(products[l.product_id],
                                                       l.update)])
           ELSE /\ barcode # None
                /\ SelectByBarcode(barcode) \ {l.product_id} # {}
                /\ products' = products
                /\ Respond(p, Error("update_product", 500, "exception"))
    /\ UNCHANGED <<now, orders, order_items, daily_counters, stock_history,
                   next_order_id, dirty, idvars, next_product_id, paging>>

\* Lines 229-237.
DeleteProductSelect(p) ==
    /\ pc[p] = "dp_select"
    /\ IF SelectProduct(loc[p].product_id, loc[p].current_user) = {}
       THEN Respond(p, [op |-> "delete_product", code |-> 404,
                        detail |-> "product_not_found",
                        token |-> loc[p].token,
                        product_id |-> loc[p].product_id])
       ELSE Goto(p, "dp_delete", loc[p])
    /\ UNCHANGED <<now, dbvars, dirty, paging>>

\* The order items that name the product.
ReferencedByItems(product_id) ==
    \E o \in DOMAIN order_items : \E k \in DOMAIN order_items[o] :
        order_items[o][k].product_id = product_id

\* Lines 239-244: delete the row, or set is_active to false, by id alone.
\* The delete of a product that order items name is carried out or rejected
\* by the store (the table's constraints are not part of this repository).
DeleteProductWrite(p, outcome) ==
    /\ pc[p] = "dp_delete"
    /\ LET l == loc[p]
       IN  IF outcome = "raise"
           THEN /\ l.hard_delete
                /\ l.product_id \in DOMAIN products
                /\ ReferencedByItems(l.product_id)
                /\ products' = products
                /\ Respond(p, Error("delete_product", 500, "exception"))
           ELSE IF l.hard_delete
           THEN /\ products' = [i \in (DOMAIN products) \ {l.product_id}
                                   |-> products[i]]
                /\ Respond(p, [op |-> "delete_product", code |-> 200,
                               detail |-> "deleted"])
           ELSE /\ products' =
                     IF l.product_id \in DOMAIN products
                     THEN [products EXCEPT ![l.product_id].is_active = FALSE]
                     ELSE products
                /\ Respond(p, [op |-> "delete_product", code |-> 200,
                               detail |-> "deactivated"])
    /\ UNCHANGED <<now, orders, order_items, daily_counters, stock_history,
                   next_order_id, dirty, idvars, next_product_id, paging>>

(***************************************************************************)
(* users.py: create_user (46-93), update_user (119-162), deactivate_user   *)
(* (165-191) and reactivate_user (194-214).  A profile row is its role and *)
(* is_active; email and full_name are carried through unread and are left  *)
(* out, and requests do not change the email.                              *)
(***************************************************************************)

\* Lines 53-62: create the auth account.  The provider gives the account a
\* fresh id ("ok"), or refuses, for instance an email already registered
\* ("raise", answered by line 93).
CreateUserAuth(p, outcome) ==
    /\ pc[p] = "cu_auth"
    /\ LET l == loc[p]
       IN  IF outcome = "ok"
           THEN /\ l.new_id \notin auth_users \cup DOMAIN users
                /\ auth_users' = auth_users \cup {l.new_id}
                /\ Goto(p, "cu_profile", l)
           ELSE /\ auth_users' = auth_users
                /\ Respond(p, Error("create_user", 400, "exception"))
    /\ UNCHANGED <<now, products, orders, order_items, daily_counters,
                   stock_history, next_order_id, dirty, users, stores,
                   next_product_id, paging>>

\* Lines 64-93: insert the profile row.  The insert returns its row ("ok"),
\* returns none ("empty", lines 75-78) or raises ("raise", line 93).
CreateUserProfile(p, outcome) ==
    /\ pc[p] = "cu_profile"
    /\ LET l == loc[p]
       IN  CASE outcome = "ok" ->
                  /\ l.new_id \notin DOMAIN users
                  /\ users' = users @@ (l.new_id :> Profile(l.role, TRUE))
                  /\ Respond(p, [op |-> "create_user", code |-> 200,
                                 detail |-> "ok", id |-> l.new_id,
                                 role |-> l.role, is_active |-> TRUE])
             [] outcome = "empty" ->
                  /\ users' = users
                  /\ Goto(p, "cu_rollback", l)
             [] outcome = "raise" ->
                  /\ users' = users
                  /\ Respond(p, Error("create_user", 400, "exception"))
    /\ UNCHANGED <<now, products, orders, order_items, daily_counters,
                   stock_history, next_order_id, dirty, auth_users, stores,
                   next_product_id, paging>>

\* Lines 76-78: delete the auth account again; a delete that raises leaves
\* it (line 93).
CreateUserRollback(p, outcome) ==
    /\ pc[p] = "cu_rollback"
    /\ IF outcome = "ok"
       THEN /\ auth_users' = auth_users \ {loc[p].new_id}
            /\ Respond(p, Error("create_user", 400, "profile_failed"))
       ELSE /\ auth_users' = auth_users
            /\ Respond(p, Error("create_user", 400, "exception"))
    /\ UNCHANGED <<now, products, orders, order_items, daily_counters,
                   stock_history, next_order_id, dirty, users, stores,
                   next_product_id, paging>>

\* Lines 128-162: update_data holds the fields the request set; refuse an
\* empty update, else write the fields to the row of user_id, whoever that
\* is; no row gives 404.
UpdateUserWrite(p) ==
    /\ pc[p] = "uu_update"
    /\ LET l == loc[p]
           update_data == l.update.set
           row == [role |-> IF "role" \in update_data THEN l.update.role
                            ELSE users[l.user_id].role,
                   is_active |-> IF "is_active" \in update_data
                                 THEN l.update.is_active
                                 ELSE users[l.user_id].is_active]
       IN  IF update_data = {}
           THEN /\ users' = users
                /\ Respond(p, Error("update_user", 400, "no_fields")
                                 @@ [token |-> l.token, id |-> l.user_id])
           ELSE IF l.user_id \notin DOMAIN users
           THEN /\ users' = users
                /\ Respond(p, Error("update_user", 404, "user_not_found")
                                 @@ [token |-> l.token, id |-> l.user_id])
           ELSE /\ users' = [users EXCEPT ![l.user_id] = row]
                /\ Respond(p, [op |-> "update_user", code |-> 200, detail |-> "ok",
                               token |-> l.token, id |-> l.user_id,
                               role |-> row.role, is_active |-> row.is_active])
    /\ UNCHANGED <<now, products, orders, order_items, daily_counters,
                   stock_history, next_order_id, dirty, auth_users, stores,
                   next_product_id, paging>>


\* Lines 173-191: refuse the admin's own id; hard delete removes the profile
\* row and then the auth account, soft delete sets is_active to false.
DeactivateUserWrite(p) ==
    /\ pc[p] = "du_write"
    /\ LET l == loc[p]
       IN  IF l.current_user.id = l.user_id
           THEN /\ users' = users
                /\ Respond(p, Error("deactivate_user", 400, "own_account"))
           ELSE IF l.hard_delete
           THEN /\ users' = [u \in (DOMAIN users) \ {l.user_id} |-> users[u]]
                /\ Goto(p, "du_auth", l)
           ELSE IF l.user_id \in DOMAIN users
           THEN /\ users' = [users EXCEPT ![l.user_id].is_active = FALSE]
                /\ Respond(p, [op |-> "deactivate_user", code |-> 200,
                               detail |-> "deactivated"])
           ELSE /\ users' = users
                /\ Respond(p, Error("deactivate_user", 404, "user_not_found"))
    /\ UNCHANGED <<now, products, orders, order_items, daily_counters,
                   stock_history, next_order_id, dirty, auth_users, stores,
                   next_product_id, paging>>

\* Lines 180-185: delete the auth account; a failure is ignored.
DeactivateUserAuth(p, outcome) ==
    /\ pc[p] = "du_auth"
    /\ auth_users' = IF outcome = "ok" THEN auth_users \ {loc[p].user_id}
                     ELSE auth_users
    /\ Respond(p, [op |-> "deactivate_user", code |-> 200, detail |-> "deleted"])
    /\ UNCHANGED <<now, products, orders, order_items, daily_counters,
                   stock_history, next_order_id, dirty, users, stores,
                   next_product_id, paging>>

\* Lines 201-214.
ReactivateUserUpdate(p) ==
    /\ pc[p] = "ru_update"
    /\ LET l == loc[p]
       IN  IF l.user_id \in DOMAIN users
           THEN /\ users' = [users EXCEPT ![l.user_id].is_active = TRUE]
                /\ Respond(p, [op |-> "reactivate_user", code |-> 200,
                               detail |-> "ok", id |-> l.user_id])
           ELSE /\ users' = users
                /\ Respond(p, Error("reactivate_user", 404, "user_not_found"))
    /\ UNCHANGED <<now, products, orders, order_items, daily_counters,
                   stock_history, next_order_id, dirty, auth_users, stores,
                   next_product_id, paging>>

(***************************************************************************)
(* stores.py: get_my_store (11-45) and update_my_store (47-75).            *)
(***************************************************************************)

\* select(...).eq("owner_id", id) on stores, in table order.
SelectStores(owner_id) == SelectSeq(stores, LAMBDA r : r.owner_id = owner_id)

\* Requests that may still insert a store row.
Storing == {q \in Procs : pc[q] \in {"gs_select", "gs_insert"}
                \/ (pc[q] = "auth_profile" /\ loc[q].op = "get_my_store")}

\* Lines 18-20 and 36: the caller's rows; the first is returned.
GetStoreSelect(p) ==
    /\ pc[p] = "gs_select"
    /\ LET l == loc[p]
           result == SelectStores(l.current_user.id)
       IN  IF result = << >>
           THEN Goto(p, "gs_insert", l)
           ELSE Respond(p, [op |-> "get_my_store", code |-> 200, detail |-> "ok",
                            owner_id |-> l.current_user.id,
                            created |-> FALSE, store |-> result[1]])
    /\ UNCHANGED <<now, dbvars, dirty, paging>>

\* Lines 23-29; the store stamps the row with the time of the insert.
DefaultStore(current_user, t) ==
    [owner_id |-> current_user.id, name |-> "default",
     receipt_footer |-> "Thank you for shopping!", updated_at |-> t]

\* Lines 30-34 and 37-45.  An insert that meets a row of the same owner
\* either adds a second row or is rejected by the store (the table's
\* constraints are not part of this repository).
GetStoreInsert(p, outcome) ==
    /\ pc[p] = "gs_insert"
    /\ LET l == loc[p]
           default_store == DefaultStore(l.current_user, now)
       IN  CASE outcome = "ok" ->
                  /\ stores' = Append(stores, default_store)
                  /\ Respond(p, [op |-> "get_my_store", code |-> 200,
                                 detail |-> "ok",
                                 owner_id |-> l.current_user.id,
                                 created |-> TRUE, store |-> default_store])
             [] outcome = "empty" ->
                  /\ stores' = stores
                  /\ Respond(p, Error("get_my_store", 500, "create_failed"))
             [] outcome = "raise" ->
                  /\ SelectStores(l.current_user.id) # << >>
                  /\ stores' = stores
                  /\ Respond(p, Error("get_my_store", 500, "exception"))
    /\ UNCHANGED <<now, products, orders, order_items, daily_counters,
                   stock_history, next_order_id, dirty, users, auth_users,
                   next_product_id, paging>>

\* Lines 58-60.
UpdateStoreCheck(p) ==
    /\ pc[p] = "us_check"
    /\ IF SelectStores(loc[p].current_user.id) = << >>
       THEN Respond(p, Error("update_my_store", 404, "store_not_found"))
       ELSE Goto(p, "us_update", loc[p])
    /\ UNCHANGED <<now, dbvars, dirty, paging>>

\* Lines 62-70: every row of the owner is updated; the first is returned.
UpdateStoreWrite(p) ==
    /\ pc[p] = "us_update"
    /\ LET l == loc[p]
           updated == [k \in DOMAIN stores |->
                          IF stores[k].owner_id = l.current_user.id
                          THEN [stores[k] EXCEPT !.name = l.name,
                                                 !.updated_at = now]
                          ELSE stores[k]]
           result == SelectSeq(updated, LAMBDA r : r.owner_id = l.current_user.id)
       IN  /\ stores' = updated
           /\ IF result = << >>
              THEN Respond(p, Error("update_my_store", 500, "update_failed"))
              ELSE Respond(p, [op |-> "update_my_store", code |-> 200,
                               detail |-> "ok",
                               owner_id |-> l.current_user.id,
                               store |-> result[1]])
    /\ UNCHANGED <<now, products, orders, order_items, daily_counters,
                   stock_history, next_order_id, dirty, users, auth_users,
                   next_product_id, paging>>

(***************************************************************************)
(* get_pending_orders (orders.py 157-194).                                 *)
(***************************************************************************)
PendingIds == {o \in DOMAIN orders : orders[o].status = "PENDING"}

\* SelectPending that orders by created_at descending.
SelectPendingNewestFirst ==
    OrderedBy(PendingIds, [o \in PendingIds |-> 0 - orders[o].created_at])

\* Lines 164-168: eq("status", "PENDING").order("created_at", desc=False).
SelectPending ==
    OrderedBy(PendingIds, [o \in PendingIds |-> orders[o].created_at])

\* Line 194.
PendingResponse(summaries) ==
    [op |-> "pending", code |-> 200, detail |-> "ok",
     orders |-> summaries, total |-> Len(summaries)]

\* Lines 159-170: the select; with no row the loop body never runs.
PendingSelect(p) ==
    /\ pc[p] = "idle"
    /\ \E ids \in SelectPending :
         LET result == [k \in DOMAIN ids |-> [id |-> ids[k]] @@ orders[ids[k]]]
         IN  IF result = << >>
             THEN Respond(p, PendingResponse(<< >>))
             ELSE Goto(p, "pend_count",
                       [op |-> "pending", result |-> result, orders |-> << >>])
    /\ UNCHANGED <<now, dbvars, dirty, paging>>

\* Lines 183-192.
OrderSummary(order_data, item_count) ==
    [id |-> order_data.id,
     daily_id |-> order_data.daily_id,
     short_id |-> format_daily_id(order_data.daily_id),
     total_amount |-> ToDecimal(order_data.total_amount),
     status |-> order_data.status,
     item_count |-> item_count,
     created_at |-> order_data.created_at]

\* Lines 171-194: one round of the loop, the count query of the next order
\* of the result; after the last one the answer is sent.
PendingCount(p) ==
    /\ pc[p] = "pend_count"
    /\ LET l == loc[p]
           order_data == l.result[Len(l.orders) + 1]
           item_count == Len(SelectItems(order_data.id))
           summaries == Append(l.orders, OrderSummary(order_data, item_count))
       IN  IF Len(summaries) = Len(l.result)
           THEN Respond(p, PendingResponse(summaries))
           ELSE Goto(p, "pend_count", [l EXCEPT !.orders = summaries])
    /\ UNCHANGED <<now, dbvars, dirty, paging>>

(***************************************************************************)
(* The page count of get_paid_orders (orders.py 209-210, 244-250) and of   *)
(* get_transaction_history (403-404, 444-450).                             *)
(***************************************************************************)
\* TotalPages that rounds down.
TotalPagesFloor(total, page_size) ==
    IF total > 0 THEN total \div page_size ELSE 1

\* (total + page_size - 1) // page_size if total > 0 else 1
TotalPages(total, page_size) ==
    IF total > 0 THEN (total + page_size - 1) \div page_size ELSE 1

\* The answer's total, page_size and total_pages for a count query that
\* reported paging.total rows and a request that asked for paging.page_size.
Paginated(op) ==
    /\ paging.op = "none"
    /\ paging' = [paging EXCEPT
                    !.op = op,
                    !.total_pages = TotalPages(paging.total, paging.page_size)]
    /\ UNCHANGED <<now, dbvars, pc, loc, resp, dirty>>

PaidPages == Paginated("paid")

HistoryPages == Paginated("history")

(***************************************************************************)
(* Time and the specifications.                                            *)
(***************************************************************************)
Tick ==
    /\ now < MaxNow
    /\ now' = now + 1
    /\ resp' = NoResp
    /\ UNCHANGED <<dbvars, pc, loc, dirty, paging>>

\* Requests of the specifications in which orders accumulate: one item
\* without a runner, or two items with one.
ConcRequests ==
    { [items |-> <<[product_id |-> 1, quantity |-> 2]>>, runner_id |-> 0],
      [items |-> <<[product_id |-> 1, quantity |-> 2],
                   [product_id |-> 2, quantity |-> 1]>>, runner_id |-> 1] }

OneRequest == { [items |-> <<[product_id |-> 1, quantity |-> 2]>>, runner_id |-> 0] }

Requests == [items : ItemLists, runner_id : {0}] \cup ConcRequests

CreateOrder(p, requests, keep) ==
    \/ \E r \in requests : CreateOrderFetch(p, r.items, r.runner_id, keep)
    \/ CounterSelect(p)
    \/ \E outcome \in {"ok", "raise"} : CounterWrite(p, outcome)
    \/ \E outcome \in {"ok", "fail"} : InsertOrder(p, outcome)
    \/ \E outcome \in {"ok", "empty", "raise"} : InsertItems(p, outcome)
    \/ \E outcome \in {"ok", "raise"} : RollbackOrder(p, outcome)

\* create_order when the store performs every write asked of it.
CreateOrderOk(p, requests, keep) ==
    \/ \E r \in requests : CreateOrderFetch(p, r.items, r.runner_id, keep)
    \/ CounterSelect(p)
    \/ CounterWrite(p, "ok")
    \/ InsertOrder(p, "ok")
    \/ InsertItems(p, "ok")

GetOrder(p) ==
    \/ \E o \in OrderIds : GetOrderSelect(p, o)
    \/ GetOrderItems(p)

MarkPaid(p) ==
    \/ \E o \in OrderIds : MarkPaidSelect(p, o)
    \/ MarkPaidUpdate(p)

Cancel(p) ==
    \/ \E o \in OrderIds : CancelSelect(p, o)
    \/ CancelUpdate(p)

AdjustStock(p) ==
    \/ \E i \in ProductIds, d \in Deltas : AdjustSelect(p, i, d)
    \/ AdjustUpdate(p)
    \/ \E outcome \in {"ok", "raise"} : AdjustHistory(p, outcome)

\* A ProductUpdate: the fields the request set, and their values.
Upd(set, name, price, barcode, is_active) ==
    [set |-> set, name |-> name, price |-> price, barcode |-> barcode,
     is_active |-> is_active]

\* Requests of the admin u1 that change or remove the products orders name.
SnapshotRequests ==
    [op : {"update_product"}, token : {"u1"}, product_id : {1},
     update : { Upd({"name"}, "A2", 0, None, TRUE),
                Upd({"price"}, "", 1200, None, TRUE),
                Upd({"name", "price"}, "A2", 1200, None, TRUE) }]
    \cup [op : {"delete_product"}, token : {"u1"}, product_id : {1, 2},
          hard_delete : BOOLEAN]

\* Concurrent order creation.
Next ==
    \/ \E p \in Procs : CreateOrder(p, ConcRequests, FALSE)
    \/ Tick

Spec == Init /\ [][Next]_vars

\* Orders created one at a time, paid and cancelled concurrently.
NextPay ==
    \/ \E p \in SeqProcs : CreateOrderOk(p, OneRequest, FALSE)
    \/ \E p \in Procs : MarkPaid(p)
    \/ \E p \in Procs : Cancel(p)
    \/ Tick

InitPay == InitStore({FullCatalog}, {TRUE})

SpecPay == InitPay /\ [][NextPay]_vars

\* The page count for every count and page size within the bounds.
InitPages ==
    /\ InitTables({FullCatalog}, {FALSE})
    /\ paging \in [op : {"none"}, total : 0..MaxTotal,
                   page_size : 1..MaxPageSize, total_pages : {0}]

NextPages ==
    \/ PaidPages
    \/ HistoryPages

SpecPages == InitPages /\ [][NextPages]_vars

ListPending(p) ==
    \/ PendingSelect(p)
    \/ PendingCount(p)

\* The cashier's queue read while orders are created, paid and cancelled.
NextPending ==
    \/ \E p \in SeqProcs : CreateOrderOk(p, OneRequest, FALSE)
    \/ \E p \in SeqProcs : MarkPaid(p)
    \/ \E p \in SeqProcs : Cancel(p)
    \/ \E p \in Procs : ListPending(p)
    \/ Tick

SpecPending == InitPay /\ [][NextPending]_vars

\* Orders created one at a time by a store whose writes may fail, paid and
\* cancelled concurrently, within one instant.
NextFrame ==
    \/ \E p \in SeqProcs : CreateOrder(p, OneRequest, FALSE)
    \/ \E p \in Procs : MarkPaid(p)
    \/ \E p \in Procs : Cancel(p)

SpecFrame == InitPay /\ [][NextFrame]_vars

\* Orders created and read while an admin renames, reprices and deletes
\* the products they name.
NextSnapshot ==
    \/ \E p \in SeqProcs : CreateOrderOk(p, ConcRequests, FALSE)
    \/ \E p \in SeqProcs : GetOrder(p)
    \/ \E p \in AdminProcs, r \in SnapshotRequests : ResolveToken(p, r)
    \/ \E p \in AdminProcs : LookupProfile(p)
    \/ \E p \in AdminProcs : UpdateProductSelect(p)
    \/ \E p \in AdminProcs : UpdateProductWrite(p, "ok")
    \/ \E p \in AdminProcs : DeleteProductSelect(p)
    \/ \E p \in AdminProcs, outcome \in {"ok", "raise"} : DeleteProductWrite(p, outcome)

SpecSnapshot == InitPay /\ [][NextSnapshot]_vars

\* Requests under require_auth and require_admin, with any token or none:
\* the soft delete of product 2, and users deactivated, deleted and
\* reactivated.
AuthRequests ==
    [op : {"delete_product"}, token : Tokens, product_id : {2},
     hard_delete : {FALSE}]
    \cup [op : {"deactivate_user"}, token : Tokens, user_id : {"u1", "u2"},
          hard_delete : BOOLEAN]
    \cup [op : {"reactivate_user"}, token : Tokens, user_id : {"u2"}]

NextAuth ==
    \/ \E p \in Procs, r \in AuthRequests : ResolveToken(p, r)
    \/ \E p \in Procs : LookupProfile(p)
    \/ \E p \in Procs : DeleteProductSelect(p)
    \/ \E p \in Procs : DeleteProductWrite(p, "ok")
    \/ \E p \in Procs : DeactivateUserWrite(p)
    \/ \E p \in Procs, outcome \in {"ok", "raise"} : DeactivateUserAuth(p, outcome)
    \/ \E p \in Procs : ReactivateUserUpdate(p)

InitAuth == InitStore({FullCatalog}, {FALSE})

SpecAuth == InitAuth /\ [][NextAuth]_vars

\* A ProductCreate with the given barcode.
NewProduct(barcode) ==
    [name |-> "C", category |-> "Sembako", price |-> 700, stock |-> 0,
     barcode |-> barcode, is_active |-> TRUE]

\* A request may begin while product ids are left for it.
MayInsert == (next_product_id - 1) + Cardinality(Inserting) < MaxProducts

\* Products created with a barcode in use ("8001") or a free one, and the
\* barcode of products 1 and 2 changed.
BarcodeRequests ==
    {[op |-> "create_product", token |-> "u2", product |-> NewProduct(b)] :
        b \in {"8001", "8002"}}
    \cup [op : {"update_product"}, token : {"u1"}, product_id : {1, 2},
          update : {Upd({"barcode"}, "", 0, b, TRUE) : b \in {"8001", "8002"}}]

NextBarcode ==
    \/ \E p \in Procs, r \in BarcodeRequests :
          /\ r.op = "create_product" => MayInsert
          /\ ResolveToken(p, r)
    \/ \E p \in Procs : LookupProfile(p)
    \/ \E p \in Procs : CreateProductCheck(p)
    \/ \E p \in Procs, outcome \in {"ok", "empty", "raise"} :
          CreateProductInsert(p, outcome)
    \/ \E p \in Procs : UpdateProductSelect(p)
    \/ \E p \in Procs : UpdateProductCheck(p)
    \/ \E p \in Procs, outcome \in {"ok", "raise"} : UpdateProductWrite(p, outcome)

SpecBarcode == InitAuth /\ [][NextBarcode]_vars

\* Updates and deletes of products 1 (no owner), 2 (owned by u2) and 3 (no
\* such row), asked by the admin u1 and by the staff users u2 and u3.
OwnerRequests ==
    [op : {"update_product"}, token : UserIds, product_id : {1, 2, 3},
     update : {Upd({}, "", 0, None, TRUE), Upd({"name"}, "A2", 0, None, TRUE)}]
    \cup [op : {"delete_product"}, token : UserIds, product_id : {1, 2, 3},
          hard_delete : BOOLEAN]

NextOwner ==
    \/ \E p \in Procs, r \in OwnerRequests : ResolveToken(p, r)
    \/ \E p \in Procs : LookupProfile(p)
    \/ \E p \in Procs : UpdateProductSelect(p)
    \/ \E p \in Procs : UpdateProductWrite(p, "ok")
    \/ \E p \in Procs : DeleteProductSelect(p)
    \/ \E p \in Procs : DeleteProductWrite(p, "ok")

SpecOwner == InitAuth /\ [][NextOwner]_vars

\* The product list asked with every token and with none, while the staff
\* user u3 adds products of its own.
ListRequests ==
    [op : {"list_products"}, token : Tokens, category : {None, "Sembako"},
     active_only : BOOLEAN, page : {1, 2}, page_size : {0, 1}]
    \cup {[op |-> "create_product", token |-> "u3", product |-> NewProduct(None)]}

NextList ==
    \/ \E p \in Procs, r \in ListRequests :
          /\ r.op = "create_product" => MayInsert
          /\ ResolveToken(p, r)
    \/ \E p \in Procs : LookupProfile(p)
    \/ \E p \in Procs : ListProductsCount(p)
    \/ \E p \in Procs : ListProductsQuery(p)
    \/ \E p \in Procs : CreateProductInsert(p, "ok")

SpecList == InitAuth /\ [][NextList]_vars

\* The store settings read and renamed by the staff users u2 and u3.
StoreRequests ==
    [op : {"get_my_store"}, token : {"u2", "u3"}]
    \cup [op : {"update_my_store"}, token : {"u2"}, name : {"S2"}]

\* A get_my_store request may begin while store rows are left for it.
NextStore ==
    \/ \E p \in Procs, r \in StoreRequests :
          /\ r.op = "get_my_store" =>
                Len(stores) + Cardinality(Storing) < MaxStores
          /\ ResolveToken(p, r)
    \/ \E p \in Procs : LookupProfile(p)
    \/ \E p \in Procs : GetStoreSelect(p)
    \/ \E p \in Procs, outcome \in {"ok", "empty", "raise"} : GetStoreInsert(p, outcome)
    \/ \E p \in Procs : UpdateStoreCheck(p)
    \/ \E p \in Procs : UpdateStoreWrite(p)
    \/ Tick

SpecStore == InitAuth /\ [][NextStore]_vars

\* Requests that never overlap: one handler, each call run to its answer.
NextSeq ==
    \/ \E p \in SeqProcs : CreateOrder(p, ConcRequests, TRUE)
    \/ \E p \in SeqProcs : MarkPaid(p)
    \/ \E p \in SeqProcs : Cancel(p)
    \/ \E p \in SeqProcs : GetOrder(p)
    \/ Tick

SpecSeq == Init /\ [][NextSeq]_vars

\* Order creation, one call at a time, as the days pass.
NextNumbering ==
    \/ \E p \in SeqProcs : CreateOrder(p, ConcRequests, TRUE)
    \/ Tick

SpecNumbering == Init /\ [][NextNumbering]_vars

\* Order creation over every item list.
NextCreate == \E p \in SeqProcs : CreateOrder(p, Requests, TRUE)

SpecCreate == Init /\ [][NextCreate]_vars

\* Concurrent stock adjustment: product 1 in the catalog, product 2 not.
InitInv == InitStore({(1 :> ProductA)}, {FALSE})

NextInv == \E p \in Procs : AdjustStock(p)

SpecInv == InitInv /\ [][NextInv]_vars

\* Concurrent order creation within one instant, by a store whose writes
\* may fail, on a day whose counter row exists: the day's first call took
\* number 1 and failed to insert its order.
InitCounter ==
    /\ InitIdentity({InitUsers})
    /\ next_product_id = 3
    /\ paging = NoPaging
    /\ now = 3
    /\ products = FullCatalog
    /\ orders = << >>
    /\ order_items = << >>
    /\ daily_counters = << [date |-> DateOf(3), last_number |-> 1] >>
    /\ next_order_id = 1
    /\ stock_history = << >>
    /\ pc = [p \in Procs |-> "idle"]
    /\ loc = [p \in Procs |-> IdleLoc]
    /\ resp = NoResp
    /\ dirty = {DateOf(3)}

NextCounter == \E p \in Procs : CreateOrder(p, OneRequest, FALSE)

SpecCounter == InitCounter /\ [][NextCounter]_vars

\* Concurrent stock adjustment whose history rows are all appended.
NextLedger ==
    \/ \E p \in Procs, i \in ProductIds, d \in Deltas : AdjustSelect(p, i, d)
    \/ \E p \in Procs : AdjustUpdate(p)
    \/ \E p \in Procs : AdjustHistory(p, "ok")

SpecLedger == InitInv /\ [][NextLedger]_vars

\* The accounts u1 (admin) and u2 (staff) exist; u3 is the id the auth
\* provider gives the next account.
InitAccounts ==
    /\ users = ("u1" :> Profile("admin", TRUE)) @@ ("u2" :> Profile("staff", TRUE))
    /\ auth_users = {"u1", "u2"}
    /\ stores = << >>
    /\ next_product_id = 3
    /\ paging = NoPaging
    /\ now = 3
    /\ products = FullCatalog
    /\ orders = << >>
    /\ order_items = << >>
    /\ daily_counters = << >>
    /\ next_order_id = 1
    /\ stock_history = << >>
    /\ pc = [p \in Procs |-> "idle"]
    /\ loc = [p \in Procs |-> IdleLoc]
    /\ resp = NoResp
    /\ dirty = {}

\* The /users requests of the admin u1, on their own account and on others.
\* A UserUpdate is the fields the request set, and their values.
UserRequests ==
    [op : {"create_user"}, token : {"u1"}, new_id : {"u3"},
     role : {"admin", "staff"}]
    \cup [op : {"update_user"}, token : {"u1"}, user_id : {"u1", "u2"},
          update : [set : {{}, {"role"}, {"is_active"}}, role : {"staff"},
                    is_active : {FALSE}]]
    \cup [op : {"deactivate_user"}, token : {"u1"}, user_id : {"u1", "u2", "u3"},
          hard_delete : BOOLEAN]
    \cup [op : {"reactivate_user"}, token : {"u1"}, user_id : {"u2"}]

NextUsers ==
    \/ \E p \in Procs, r \in UserRequests : ResolveToken(p, r)
    \/ \E p \in Procs : LookupProfile(p)
    \/ \E p \in Procs, outcome \in {"ok", "raise"} : CreateUserAuth(p, outcome)
    \/ \E p \in Procs, outcome \in {"ok", "empty", "raise"} :
          CreateUserProfile(p, outcome)
    \/ \E p \in Procs, outcome \in {"ok", "raise"} : CreateUserRollback(p, outcome)
    \/ \E p \in Procs : UpdateUserWrite(p)
    \/ \E p \in Procs : DeactivateUserWrite(p)
    \/ \E p \in Procs, outcome \in {"ok", "raise"} : DeactivateUserAuth(p, outcome)
    \/ \E p \in Procs : ReactivateUserUpdate(p)

SpecUsers == InitAccounts /\ [][NextUsers]_vars

\* Orders read and listed while they are created by a store whose writes
\* may fail.
NextObserve ==
    \/ \E p \in SeqProcs : CreateOrder(p, OneRequest, FALSE)
    \/ \E p \in Procs : GetOrder(p)
    \/ \E p \in Procs : ListPending(p)

SpecObserve == InitStore({FullCatalog}, {FALSE}) /\ [][NextObserve]_vars

(***************************************************************************)
(* Properties.                                                             *)
(***************************************************************************)
Days == 1..DateOf(MaxNow)

AllIdle == \A p \in Procs : pc[p] = "idle"

\* The orders inserted on day d.
CreatedOn(d) == {o \in DOMAIN orders : DateOf(orders[o].created_at) = d}

\* C1: two orders created on the same calendar day, on which no call failed
\* or ran past midnight, never carry the same daily_id nor the same
\* invoice_id, however the createOrder calls interleave.
C1_UniqueDailyId ==
    \A d \in Days : d \notin dirty =>
        \A a, b \in CreatedOn(d) :
            a # b => /\ orders[a].daily_id # orders[b].daily_id
                     /\ orders[a].invoice_id # orders[b].invoice_id

\* C2: when createOrder calls do not overlap, each takes its number and
\* inserts its order within one calendar day, and none of them fails, the
\* k-th order created on a day carries daily_id k (so the ids of N orders
\* are exactly 1..N).
C2_SequentialNumbering ==
    \A d \in Days : d \notin dirty =>
        \A o \in CreatedOn(d) :
            orders[o].daily_id = Cardinality({x \in CreatedOn(d) : x <= o})

\* Two orders created one after the other on one clean day.
C2_Witness ==
    /\ AllIdle
    /\ \E d \in Days :
         /\ d \notin dirty
         /\ Cardinality(CreatedOn(d)) >= 2
         /\ \A o \in CreatedOn(d) : o \in DOMAIN order_items

\* C3: once an order's stored status is PAID or CANCELLED no step changes it,
\* also when markPaid and cancel run concurrently on the order.
C3_TerminalStatus ==
    [][\A o \in DOMAIN orders :
          (orders[o].status \in {"PAID", "CANCELLED"} /\ o \in DOMAIN orders')
              => orders'[o].status = orders[o].status]_vars

\* The order a markPaid or cancel call, begun by p in this step, is about:
\* the one it goes on to update, or the one its answer names.
Begins(p, o) ==
    /\ pc[p] = "idle"
    /\ \/ pc'[p] \in {"pay_update", "cancel_update"} /\ loc'[p].order_id = o
       \/ /\ resp'.proc = p
          /\ resp'.op \in {"pay", "cancel"}
          /\ resp'.id = o

C5_TotalIsSumOfSubtotals ==
    \A o \in (DOMAIN orders) \cap (DOMAIN order_items) :
        /\ orders[o].total_amount = SumSubtotals(order_items[o])
        /\ \A i \in DOMAIN order_items[o] :
              order_items[o][i].subtotal =
                  order_items[o][i].price_at_purchase * order_items[o][i].quantity

\* Items (price 10.00, qty 2) and (price 5.00, qty 1): subtotals 20.00 and
\* 5.00, total 25.00.
C5_Witness ==
    \E o \in (DOMAIN orders) \cap (DOMAIN order_items) :
        /\ Len(order_items[o]) = 2
        /\ order_items[o][1].price_at_purchase = 1000
        /\ order_items[o][1].quantity = 2
        /\ order_items[o][1].subtotal = 2000
        /\ order_items[o][2].price_at_purchase = 500
        /\ order_items[o][2].quantity = 1
        /\ order_items[o][2].subtotal = 500
        /\ orders[o].total_amount = 2500

\* C6: a createOrder call that answers with an error leaves orders,
\* order_items and daily_counters as they were when the call began.
C6_FailedCreateChangesNothing ==
    [][(resp'.op = "create" /\ resp'.code >= 400)
          => Snapshot' = (IF pc[resp'.proc] = "idle" THEN Snapshot
                          ELSE loc[resp'.proc].pre)]_vars

\* C7: the invoice_id answered by createOrder, getOrder and markPaid is the
\* INV string of the order's creation date and daily_id.
C7_InvoiceOfCreationDate ==
    (resp.op \in {"create", "get", "pay"} /\ resp.code \in {200, 201}
        /\ resp.id \in DOMAIN orders)
    => resp.invoice_id = InvoiceString(DateOf(orders[resp.id].created_at),
                                       orders[resp.id].daily_id)

\* C8: no product's stored stock is negative, however adjust calls interleave.
C8_StockNeverNegative ==
    \A i \in DOMAIN products : products[i].stock >= 0

\* Two adjust calls that read the same stock of one product and both
\* subtracted from it.
C8_Witness ==
    /\ Len(stock_history) >= 2
    /\ stock_history[1].product_id = stock_history[2].product_id
    /\ stock_history[1].previous_stock = stock_history[2].previous_stock
    /\ stock_history[1].adjustment < 0
    /\ stock_history[2].adjustment < 0
    /\ products[stock_history[1].product_id].stock = 0

\* The product and the delta of an adjust call begun by p in this step.
BeginsAdjust(p, i, d) ==
    /\ pc[p] = "idle"
    /\ \/ /\ pc'[p] = "adj_update"
          /\ loc'[p].product_id = i
          /\ loc'[p].adjustment = d
       \/ /\ resp'.proc = p
          /\ resp'.op = "adjust"
          /\ resp'.product_id = i
          /\ resp'.adjustment = d

\* C9: adjust(product, delta) begun when stock + delta < 0 answers 400 and
\* leaves products and stock_history as they were; begun when
\* stock + delta >= 0 it goes on to store exactly stock + delta and answers
\* 200 with that value.
C9_AdjustFloor ==
    [][/\ \A p \in Procs, i \in DOMAIN products, d \in Deltas :
            BeginsAdjust(p, i, d) =>
               IF products[i].stock + d < 0
               THEN /\ pc'[p] = "idle"
                    /\ resp'.code = 400
                    /\ products' = products
                    /\ stock_history' = stock_history
               ELSE /\ pc'[p] = "adj_update"
                    /\ loc'[p].current_stock = products[i].stock
                    /\ products' = products
       /\ \A p \in Procs :
            (pc[p] = "adj_update" /\ pc'[p] # "adj_update") =>
               /\ pc'[p] = "adj_history"
               /\ products'[loc[p].product_id].stock
                      = loc[p].current_stock + loc[p].adjustment
               /\ loc'[p] = loc[p]
       /\ \A p \in Procs :
            (pc[p] = "adj_history" /\ pc'[p] # "adj_history") =>
               /\ resp'.proc = p
               /\ resp'.code = 200
               /\ resp'.new_stock = loc[p].current_stock + loc[p].adjustment
               /\ products' = products]_vars

\* An adjustment that brought the stock to exactly 0.
C9_Witness ==
    /\ resp.op = "adjust"
    /\ resp.code = 200
    /\ resp.adjustment < 0
    /\ resp.new_stock = 0
    /\ products[resp.product_id].stock = 0

AllAvailable(items) ==
    \A k \in DOMAIN items :
        /\ items[k].product_id \in DOMAIN products
        /\ products[items[k].product_id].is_active

Created == (DOMAIN orders) \cap (DOMAIN order_items)

\* C11: once an order and its items are stored, no step removes the row or
\* changes its daily_id, invoice_id, runner_id, total_amount, created_at or
\* items; a markPaid or cancel update changes, of the order it targets, only
\* status and updated_at, and leaves every other order as it was.
C11_OrderIsImmutable ==
    [][/\ \A o \in Created :
            /\ o \in DOMAIN orders'
            /\ o \in DOMAIN order_items'
            /\ orders'[o].daily_id = orders[o].daily_id
            /\ orders'[o].invoice_id = orders[o].invoice_id
            /\ orders'[o].runner_id = orders[o].runner_id
            /\ orders'[o].total_amount = orders[o].total_amount
            /\ orders'[o].created_at = orders[o].created_at
            /\ order_items'[o] = order_items[o]
       /\ \A p \in Procs :
            (pc[p] \in {"pay_update", "cancel_update"} /\ pc'[p] = "idle") =>
                /\ DOMAIN orders' = DOMAIN orders
                /\ order_items' = order_items
                /\ \A o \in DOMAIN orders :
                      IF o = loc[p].order_id
                      THEN orders'[o] = [orders[o] EXCEPT
                                            !.status = orders'[o].status,
                                            !.updated_at = orders'[o].updated_at]
                      ELSE orders'[o] = orders[o]]_vars

\* Two stored orders with the same daily number (of different days), one
\* PAID and one CANCELLED.
C11_Witness ==
    \E a, b \in Created :
        /\ a # b
        /\ orders[a].daily_id = orders[b].daily_id
        /\ orders[a].status = "PAID"
        /\ orders[b].status = "CANCELLED"

\* C13: markPaid never refuses an order that exists and is PENDING when it
\* reads it, and its update of a stored order sets status PAID and
\* updated_at to the current time and answers 200 with status PAID and a
\* paid_at equal to the updated_at it stored.
C13_MarkPaidStoresPaid ==
    [][\A p \in Procs :
          /\ (pc[p] = "idle" /\ resp'.proc = p /\ resp'.op = "pay") =>
                \/ resp'.id \notin DOMAIN orders
                \/ orders[resp'.id].status # "PENDING"
          /\ (pc[p] = "pay_update" /\ pc'[p] = "idle"
                   /\ loc[p].order_id \in DOMAIN orders) =>
                /\ orders'[loc[p].order_id].status = "PAID"
                /\ orders'[loc[p].order_id].updated_at = now
                /\ resp'.proc = p
                /\ resp'.code = 200
                /\ resp'.status = "PAID"
                /\ resp'.paid_at = orders'[loc[p].order_id].updated_at]_vars

\* An order paid at a later instant than the one at which it was created.
C13_Witness ==
    /\ resp.op = "pay"
    /\ resp.code = 200
    /\ orders[resp.id].status = "PAID"
    /\ orders[resp.id].updated_at = resp.paid_at
    /\ orders[resp.id].created_at < resp.paid_at
    /\ resp.paid_at = now

\* C12: a step that changes the products table (a rename, a new price, a
\* soft or a hard delete) leaves orders and order_items as they were, and
\* getOrder answers with the product_name, price_at_purchase and subtotal
\* stored in the order's items and the stored total_amount, whatever the
\* products are by then.
C12_SnapshotIsFixed ==
    [][/\ products' # products =>
            (orders' = orders /\ order_items' = order_items)
       /\ (resp'.op = "get" /\ resp'.code = 200
               /\ resp'.id \in DOMAIN order_items) =>
            /\ resp'.items = order_items[resp'.id]
            /\ resp'.total_amount = orders[resp'.id].total_amount]_vars

\* getOrder answering with the name "A" and the price 10.00 of an item
\* whose product was renamed and repriced, or deleted, after the order.
C12_Witness ==
    /\ resp.op = "get"
    /\ resp.code = 200
    /\ resp.items # << >>
    /\ resp.items[1].product_id = 1
    /\ resp.items[1].product_name = "A"
    /\ resp.items[1].price_at_purchase = 1000
    /\ \/ 1 \notin DOMAIN products
       \/ products[1].name = "A2" /\ products[1].price = 1200

\* The handler of p is under require_auth or require_admin.
Guarded(l) == Guard(l.op) \in {"auth", "admin"}

C15_BarcodeUnique ==
    \A i, j \in DOMAIN products :
        (i # j /\ products[i].barcode # None)
            => products[i].barcode # products[j].barcode

\* C16: an update or a delete asked by a caller who is no admin, of a
\* product that is missing or whose owner_id is not the caller's id (another
\* user's, or null), is answered 404 at its first query and the products
\* table stays as it was; and a product row is changed or removed only by
\* a request that names it and whose caller is an admin or its owner.
C16_OwnerOnly ==
    [][\A p \in Procs :
          /\ (pc[p] \in {"up_select", "dp_select"} /\ pc'[p] # pc[p]
                  /\ loc[p].current_user.role # "admin"
                  /\ \/ loc[p].product_id \notin DOMAIN products
                     \/ products[loc[p].product_id].owner_id
                            # loc[p].current_user.id) =>
                /\ resp'.proc = p
                /\ resp'.code = 404
                /\ pc'[p] = "idle"
                /\ products' = products
          /\ \A i \in DOMAIN products :
                (pc[p] \in {"up_update", "dp_delete"} /\ pc'[p] = "idle"
                    /\ (i \notin DOMAIN products' \/ products'[i] # products[i])) =>
                   /\ i = loc[p].product_id
                   /\ \/ loc[p].current_user.role = "admin"
                      \/ products[i].owner_id = loc[p].current_user.id]_vars

\* The staff user u3 refused the delete of product 2, which u2 owns and
\* which is still there and active.
C16_Witness ==
    /\ resp.op = "delete_product"
    /\ resp.code = 404
    /\ resp.token = "u3"
    /\ resp.product_id = 2
    /\ 2 \in DOMAIN products
    /\ products[2].owner_id = "u2"
    /\ products[2].is_active

\* C17: the product list answered to a caller who is no admin (a staff
\* user, or a caller without a valid token) holds only products whose
\* owner_id is that caller's id.
C17_ListIsOwnerScoped ==
    (resp.op = "list_products" /\ resp.code = 200
        /\ resp.current_user.role # "admin")
    => \A k \in DOMAIN resp.products :
          /\ resp.current_user # NoUser
          /\ resp.products[k].owner_id = resp.current_user.id

\* C18: no owner ever has more than one store row, however the getMine and
\* updateMine calls interleave, and a getMine that finds a row answers with
\* that row.
C18_OneStorePerOwner ==
    /\ \A u \in UserIds : Len(SelectStores(u)) <= 1
    /\ (resp.op = "get_my_store" /\ resp.code = 200 /\ ~resp.created)
          => resp.store \in Range(stores)

(***************************************************************************)
(* C19: the pending list.                                                  *)
(***************************************************************************)
Ids(rows) == [k \in DOMAIN rows |-> rows[k].id]

Ascending(rows) ==
    \A a, b \in DOMAIN rows : a < b => rows[a].created_at <= rows[b].created_at

\* C19: the rows get_pending_orders reads are exactly the orders whose
\* stored status is PENDING at that moment, each once, oldest created_at
\* first, so an order is read from its insertion until it is paid or
\* cancelled and never after; the answer lists the rows read, in that order,
\* with the status PENDING, and total is their number.
C19_PendingIsExact ==
    [][\A p \in Procs :
        /\ (pc[p] = "idle" /\ pc'[p] = "pend_count") =>
              LET result == loc'[p].result
              IN  /\ Range(Ids(result)) = PendingIds
                  /\ Len(result) = Cardinality(PendingIds)
                  /\ Ascending(result)
        /\ (pc[p] = "idle" /\ resp'.op = "pending" /\ resp'.proc = p) =>
              /\ PendingIds = {}
              /\ resp'.orders = << >>
        /\ (pc[p] = "pend_count" /\ pc'[p] = "pend_count") =>
              loc'[p].result = loc[p].result
        /\ (pc[p] = "pend_count" /\ resp'.op = "pending" /\ resp'.proc = p) =>
              /\ resp'.code = 200
              /\ Ids(resp'.orders) = Ids(loc[p].result)
              /\ Ascending(resp'.orders)
              /\ \A k \in DOMAIN resp'.orders :
                    /\ resp'.orders[k].status = "PENDING"
                    /\ resp'.orders[k].created_at = loc[p].result[k].created_at
              /\ resp'.total = Len(resp'.orders)
    ]_vars

\* Two pending orders created at different instants are listed while no
\* other order is pending.
C19_Witness ==
    /\ resp.op = "pending"
    /\ Len(resp.orders) = 2
    /\ resp.orders[1].created_at < resp.orders[2].created_at
    /\ Range(Ids(resp.orders)) = PendingIds

(***************************************************************************)
(* C20: the page count.                                                    *)
(***************************************************************************)
\* The least k with k * page_size >= total.
Ceiling(total, page_size) ==
    CHOOSE k \in 0..total :
        /\ k * page_size >= total
        /\ \A j \in 0..total : j * page_size >= total => k <= j

\* C20: for get_paid_orders and get_transaction_history, total_pages is
\* the ceiling of total / page_size when total > 0, and 1 when total = 0,
\* for every total >= 0 and page_size >= 1.
C20_TotalPagesIsCeiling ==
    paging.op \in {"paid", "history"} =>
        paging.total_pages =
            IF paging.total > 0 THEN Ceiling(paging.total, paging.page_size)
            ELSE 1

\* 25 orders in pages of 10 make 3 pages.
C20_Witness ==
    /\ paging.op \in {"paid", "history"}
    /\ paging.total = 25
    /\ paging.page_size = 10
    /\ paging.total_pages = 3

(***************************************************************************)
(* C21: compensation after a failed item insert.                           *)
(***************************************************************************)
\* C21: a create_order call that has inserted its order row and does not
\* get its items inserted answers 500, and when it has answered neither the
\* order row nor any item of it is in the store.
C21_FailedItemsRemoveOrder ==
    [][\A p \in Procs :
        (/\ pc[p] \in {"co_insert_items", "co_rollback"}
         /\ resp'.op = "create" /\ resp'.proc = p /\ resp'.code # 201) =>
            /\ resp'.code = 500
            /\ loc[p].order_id \notin DOMAIN orders'
            /\ loc[p].order_id \notin DOMAIN order_items'
    ]_vars

(***************************************************************************)
(* C22: the stock history is a side channel.                               *)
(***************************************************************************)
\* C22: an adjust call that passed its checks stores current_stock + delta
\* as the product's stock, and then answers 200 with the same product,
\* previous stock, new stock and delta whether its history row was appended
\* or not; the history step changes no product.
C22_HistoryIsBestEffort ==
    [][\A p \in Procs :
        /\ (pc[p] = "adj_update" /\ pc'[p] = "adj_history") =>
              products'[loc[p].product_id].stock
                  = loc[p].current_stock + loc[p].adjustment
        /\ (pc[p] = "adj_history" /\ pc'[p] = "idle") =>
              /\ resp' = [op |-> "adjust", code |-> 200, detail |-> "ok",
                          product_id |-> loc[p].product_id,
                          product_name |-> loc[p].product_name,
                          previous_stock |-> loc[p].current_stock,
                          new_stock |-> loc[p].current_stock + loc[p].adjustment,
                          adjustment |-> loc[p].adjustment,
                          proc |-> p]
              /\ products' = products
              /\ Len(stock_history') \in {Len(stock_history), Len(stock_history) + 1}
    ]_vars

\* An adjustment answered with success and stored, of which the history
\* holds no row.
C22_Witness ==
    /\ resp.op = "adjust"
    /\ resp.code = 200
    /\ stock_history = << >>
    /\ products[resp.product_id].stock = resp.new_stock
    /\ resp.new_stock = resp.previous_stock + resp.adjustment

(***************************************************************************)
(* C23: the counter rows.                                                  *)
(***************************************************************************)
CounterDays == {r.date : r \in Range(daily_counters)}

\* C23: no step leaves two daily_counters rows of one calendar day; a step
\* adds at most one row, only for a day that had none, and removes none.
C23_OneCounterPerDay ==
    [][/\ \A d \in CounterDays' : Len(SelectCounters(d)') <= 1
       /\ Len(daily_counters') >= Len(daily_counters)
       /\ Len(daily_counters') > Len(daily_counters) =>
             /\ Len(daily_counters') = Len(daily_counters) + 1
             /\ daily_counters'[Len(daily_counters')].date \notin CounterDays
       /\ CounterDays \subseteq CounterDays'
    ]_vars

(***************************************************************************)
(* C24: one winner among concurrent markPaid and cancel calls.             *)
(***************************************************************************)
\* C24: of the markPaid and cancel calls made on one PENDING order, however
\* they overlap, at most one is answered with success: a call is answered
\* with success only in the step that takes the order out of PENDING, so a
\* call that writes after another has succeeded is answered with an error and
\* the stored status stays that of the one success.
C24_OneWinner ==
    [][\A p \in Procs :
          (/\ pc[p] \in {"pay_update", "cancel_update"}
           /\ resp'.proc = p
           /\ resp'.code = 200) =>
              orders[loc[p].order_id].status = "PENDING"
    ]_vars

(***************************************************************************)
(* C25: the counter and the numbers handed out.                            *)
(***************************************************************************)
\* C25: no step lowers the last_number of a counter row, and in every state
\* the last_number of a day's row is at least the daily_id of every order
\* created on that day, however the createOrder calls interleave.
C25_CounterIsMonotonic ==
    [][/\ \A i \in DOMAIN daily_counters :
            /\ i \in DOMAIN daily_counters'
            /\ daily_counters'[i].date = daily_counters[i].date
            /\ daily_counters'[i].last_number >= daily_counters[i].last_number
       /\ \A o \in DOMAIN orders', i \in DOMAIN daily_counters' :
            daily_counters'[i].date = DateOf(orders'[o].created_at)
                => daily_counters'[i].last_number >= orders'[o].daily_id
    ]_vars

(***************************************************************************)
(* C26: no successful adjustment is lost.                                  *)
(***************************************************************************)
\* The sum of the deltas of the history rows of product i.
RECURSIVE SumAdjustments(_, _)
SumAdjustments(rows, i) ==
    IF rows = << >> THEN 0
    ELSE (IF Head(rows).product_id = i THEN Head(rows).adjustment ELSE 0)
             + SumAdjustments(Tail(rows), i)

\* C26: when every adjust call has been answered, the stock of a product is
\* its initial stock plus the sum of the deltas of the calls answered with
\* success (each of which has a history row), however they interleaved.
C26_NoAdjustmentLost ==
    AllIdle =>
        \A i \in DOMAIN products :
            products[i].stock = ProductA.stock + SumAdjustments(stock_history, i)

(***************************************************************************)
(* C27: accounts and profiles.                                             *)
(***************************************************************************)
\* C27: when every /users call has been answered, each account of the auth
\* provider has a profile row, so none resolves to the fallback admin, also
\* after calls whose profile insert or auth deletion failed.
C27_NoAccountWithoutProfile ==
    AllIdle => \A u \in auth_users : u \in DOMAIN users

(***************************************************************************)
(* C29: an admin's own access.                                             *)
(***************************************************************************)
\* C29: a /users call by an admin never deactivates, deletes or demotes the
\* caller's own profile: a step of a call on the caller's own id leaves the
\* caller's profile row as it was.
C29_AdminKeepsAccess ==
    [][\A p \in Procs :
          (/\ pc[p] \in {"uu_update", "du_write", "du_auth"}
           /\ pc'[p] # pc[p]
           /\ loc[p].user_id = loc[p].current_user.id
           /\ loc[p].user_id \in DOMAIN users) =>
              /\ loc[p].user_id \in DOMAIN users'
              /\ users'[loc[p].user_id] = users[loc[p].user_id]
    ]_vars

(***************************************************************************)
(* C28: orders are observed with their items.                              *)
(***************************************************************************)
\* C28: every order an answer of get_order or get_pending_orders shows has
\* at least one item, also when it is read between the two inserts of a
\* create_order call or after a compensating delete that failed.
C28_ObservedOrderHasItems ==
    /\ (resp.op = "get" /\ resp.code = 200) => Len(resp.items) >= 1
    /\ resp.op = "pending" =>
          \A k \in DOMAIN resp.orders : resp.orders[k].item_count >= 1

(***************************************************************************)
(* C30: the products of an order when it is written.                       *)
(***************************************************************************)
\* C30: when create_order inserts an order row, every product the order
\* names is in the catalog and active at that moment, also when a product
\* is deleted or deactivated while the call runs.
C30_ProductsActiveAtInsert ==
    [][\A p \in Procs :
          (pc[p] = "co_insert_order" /\ pc'[p] = "co_insert_items") =>
              \A k \in DOMAIN loc[p].items :
                  /\ loc[p].items[k].product_id \in DOMAIN products
                  /\ products[loc[p].items[k].product_id].is_active
    ]_vars
====
